---- MODULE Spec2Model ----
(***************************************************************************)
(* Model of the bounded connection pool of conn.go (package conn).         *)
(*                                                                         *)
(* The pool is the struct Conn: two buffered channels (pool, notice), the  *)
(* counter active, the flag closed and a mutex.  Goroutines are the        *)
(* processes of Procs; each one calls Acquire, Regain, Close and Release   *)
(* and every channel operation, lock operation and unsynchronised read of  *)
(* the source is one step of the calling process.  A step that only        *)
(* touches state guarded by the mutex is merged with the Lock or Unlock    *)
(* next to it.  A run-time panic (nil dereference, send on or close of a   *)
(* closed channel) ends the whole program.                                 *)
(***************************************************************************)
EXTENDS Integers, Sequences, FiniteSets, TLC

\* ---------------------------------------------------------------- bounds
\* Number of goroutines using the pool.
NumProcs == 3
\* Largest capacity handed to NewManager.
MaxCap == 2
\* Number of resources the builder can hand out after NewManager returned.
MaxBuilds == 1
\* Number of returns the history keeps.
TraceLen == 3

Procs == 1..NumProcs
\* Resource identities: the k-th successful builder() call returns k.
Resources == 1..(MaxCap + MaxBuilds)
\* The nil *Poolable (what a receive from a closed, drained channel yields).
NIL == 0

VARIABLES
  max,        \* conn.max
  pool,       \* conn.pool: the buffered items, oldest first
  poolClosed, \* close(conn.pool) has run
  notice,     \* len(conn.notice)
  active,     \* conn.active
  closed,     \* conn.closed
  mutex,      \* conn.mutex is locked
  built,      \* number of successful builder() calls so far
  expired,    \* resources whose Done() channel is closed
  closeCalls, \* per resource, how often Conn.Close() of the io.Closer ran
  closeErrs,  \* resources whose Conn.Close() returned an error
  pc,         \* per goroutine, where it is in the source
  closer,     \* per goroutine, the *Poolable its running call has in hand
  held,       \* per resource, how many references consumers hold to it
  ret,        \* per goroutine, what its last finished call returned
  tracing,    \* the calls' returns are recorded in trace
  trace,      \* history: the last TraceLen returns, oldest first
  released,   \* some Release call has returned nil
  panicked    \* the program has died of a run-time panic

vars == <<max, pool, poolClosed, notice, active, closed, mutex, built,
          expired, closeCalls, closeErrs, pc, closer, held, ret, tracing,
          trace, released, panicked>>

poolVars == <<pool, poolClosed>>
countVars == <<active, closed, mutex, notice>>
envVars == <<max, tracing, built, expired, closeCalls, closeErrs, held,
             released, panicked>>
cfgVars == <<max, tracing>>

\* ------------------------------------------------------------- helpers
RECURSIVE SeqOfRange(_, _)
SeqOfRange(lo, hi) == IF lo > hi THEN <<>> ELSE <<lo>> \o SeqOfRange(lo + 1, hi)

InPool(r) == \E i \in 1..Len(pool) : pool[i] = r

\* The run-time panic of the Go program: every goroutine stops.
Panic(p) ==
  /\ panicked' = TRUE
  /\ pc' = [pc EXCEPT ![p] = "panic"]

\* History: the return of a call, with the resource it returned or was
\* given and the number of idle resources the call found.
Event(op, value, r) == [op |-> op, val |-> value, res |-> r, idle |-> Len(pool)]

LastOf(s) == IF Len(s) > TraceLen THEN Tail(s) ELSE s

\* A call of p returns value; its local closer goes out of scope.
Return(p, op, value, r) ==
  /\ pc' = [pc EXCEPT ![p] = "idle"]
  /\ ret' = [ret EXCEPT ![p] = value]
  /\ closer' = [closer EXCEPT ![p] = NIL]
  /\ trace' = IF tracing THEN LastOf(Append(trace, Event(op, value, r))) ELSE trace

\* ---------------------------------------------------------------- Init
\* NewManager(max, builder) with every builder() call succeeding.
NewManager(recording) ==
  /\ tracing = recording
  /\ max \in 1..MaxCap
  /\ pool = SeqOfRange(1, max)
  /\ poolClosed = FALSE
  /\ notice = 0
  /\ active = max
  /\ closed = FALSE
  /\ mutex = FALSE
  /\ built = max
  /\ expired = {}
  /\ closeCalls = [r \in Resources |-> 0]
  /\ closeErrs = {}
  /\ pc = [p \in Procs |-> "idle"]
  /\ closer = [p \in Procs |-> NIL]
  /\ held = [r \in Resources |-> 0]
  /\ ret = [p \in Procs |-> "none"]
  /\ trace = <<>>
  /\ released = FALSE
  /\ panicked = FALSE

Init == NewManager(FALSE)

\* ------------------------------------------------------------- Acquire
\* Acquire, entry: the unsynchronised read of conn.closed.
AcquireCall(p) ==
  /\ ~panicked /\ pc[p] = "idle"
  /\ IF closed
       THEN Return(p, "Acquire", "PoolClosed", NIL)
       ELSE /\ pc' = [pc EXCEPT ![p] = "acquire"]
            /\ ret' = [ret EXCEPT ![p] = "none"]
            /\ UNCHANGED <<closer, trace>>
  /\ UNCHANGED <<poolVars, countVars, envVars>>

\* A receive from conn.pool can proceed: an item is buffered, or the channel
\* is closed.
RecvReady == Len(pool) > 0 \/ poolClosed

\* Mutant of RecvPool: the item is read but stays buffered.
RecvPool_Peek(p) ==
  IF Len(pool) > 0
    THEN /\ closer' = [closer EXCEPT ![p] = Head(pool)]
         /\ pool' = pool
    ELSE /\ poolClosed
         /\ closer' = [closer EXCEPT ![p] = NIL]
         /\ pool' = pool

\* The receive itself: the oldest buffered item, or nil once the channel is
\* closed and drained.
RecvPool(p) ==
  IF Len(pool) > 0
    THEN /\ closer' = [closer EXCEPT ![p] = Head(pool)]
         /\ pool' = Tail(pool)
    ELSE /\ poolClosed
         /\ closer' = [closer EXCEPT ![p] = NIL]
         /\ pool' = pool

\* acquire, the outer select: non-blocking receive, else the default branch.
AcquireSelect(p) ==
  /\ ~panicked /\ pc[p] = "acquire"
  /\ IF RecvReady
       THEN /\ RecvPool(p)
            /\ pc' = [pc EXCEPT ![p] = "check"]
       ELSE /\ pc' = [pc EXCEPT ![p] = "lock"]
            /\ UNCHANGED <<pool, closer>>
  /\ UNCHANGED <<poolClosed, countVars, envVars, ret, trace>>

\* Mutant of AtCapacity: an off-by-one capacity test.
AtCapacity_OffByOne == active > max

\* The capacity test under the lock.
AtCapacity == active >= max

\* acquire, default branch: Lock, then the capacity test; at capacity the
\* lock is released again before the blocking select.
AcquireLock(p) ==
  /\ ~panicked /\ pc[p] = "lock"
  /\ ~mutex
  /\ IF AtCapacity
       THEN /\ pc' = [pc EXCEPT ![p] = "wait"]
            /\ UNCHANGED mutex
       ELSE /\ pc' = [pc EXCEPT ![p] = "build"]
            /\ mutex' = TRUE
  /\ UNCHANGED <<poolVars, active, closed, notice, envVars, closer, ret, trace>>

\* acquire, the blocking select at capacity, receive branch.
AcquireWaitPool(p) ==
  /\ ~panicked /\ pc[p] = "wait"
  /\ RecvReady
  /\ RecvPool(p)
  /\ pc' = [pc EXCEPT ![p] = "check"]
  /\ UNCHANGED <<poolClosed, countVars, envVars, ret, trace>>

\* acquire, the blocking select at capacity, notice branch: goto acquire.
AcquireWaitNotice(p) ==
  /\ ~panicked /\ pc[p] = "wait"
  /\ notice > 0
  /\ notice' = notice - 1
  /\ pc' = [pc EXCEPT ![p] = "acquire"]
  /\ UNCHANGED <<poolVars, active, closed, mutex, envVars, closer, ret, trace>>

\* Mutant of AcquireBuild: the constructed resource is not counted in active.
AcquireBuild_NoCount(p) ==
  /\ ~panicked /\ pc[p] = "build"
  /\ \/ /\ mutex' = FALSE
        /\ Return(p, "Acquire", "BuildErr", NIL)
        /\ UNCHANGED <<active, built>>
     \/ /\ built < max + MaxBuilds
        /\ built' = built + 1
        /\ active' = active
        /\ closer' = [closer EXCEPT ![p] = built + 1]
        /\ pc' = [pc EXCEPT ![p] = "send"]
        /\ UNCHANGED <<mutex, ret, trace>>
  /\ UNCHANGED <<poolVars, closed, notice, cfgVars, expired, closeCalls,
                 closeErrs, held, released, panicked>>

\* Mutant of AcquireBuild: the builder's error is returned without Unlock.
AcquireBuild_KeepLock(p) ==
  /\ ~panicked /\ pc[p] = "build"
  /\ \/ /\ mutex' = mutex
        /\ Return(p, "Acquire", "BuildErr", NIL)
        /\ UNCHANGED <<active, built>>
     \/ /\ built < max + MaxBuilds
        /\ built' = built + 1
        /\ active' = active + 1
        /\ closer' = [closer EXCEPT ![p] = built + 1]
        /\ pc' = [pc EXCEPT ![p] = "send"]
        /\ UNCHANGED <<mutex, ret, trace>>
  /\ UNCHANGED <<poolVars, closed, notice, cfgVars, expired, closeCalls,
                 closeErrs, held, released, panicked>>

\* acquire, builder() under the lock: an error unlocks and is returned,
\* a resource is counted in active.
AcquireBuild(p) ==
  /\ ~panicked /\ pc[p] = "build"
  /\ \/ /\ mutex' = FALSE
        /\ Return(p, "Acquire", "BuildErr", NIL)
        /\ UNCHANGED <<active, built>>
     \/ /\ built < max + MaxBuilds
        /\ built' = built + 1
        /\ active' = active + 1
        /\ closer' = [closer EXCEPT ![p] = built + 1]
        /\ pc' = [pc EXCEPT ![p] = "send"]
        /\ UNCHANGED <<mutex, ret, trace>>
  /\ UNCHANGED <<poolVars, closed, notice, cfgVars, expired, closeCalls,
                 closeErrs, held, released, panicked>>

\* Mutant of AcquireSend: the new resource is queued and also returned
\* directly, without the receive that takes it out of the queue again.
AcquireSend_KeepLocal(p) ==
  /\ ~panicked /\ pc[p] = "send"
  /\ IF poolClosed
       THEN /\ Panic(p)
            /\ UNCHANGED <<pool, mutex, closer>>
       ELSE /\ Len(pool) < max
            /\ pool' = Append(pool, closer[p])
            /\ closer' = closer
            /\ mutex' = FALSE
            /\ pc' = [pc EXCEPT ![p] = "check"]
            /\ UNCHANGED panicked
  /\ UNCHANGED <<poolClosed, active, closed, notice, cfgVars, built, expired,
                 closeCalls, closeErrs, held, released, ret, trace>>

\* acquire, conn.pool <- closer under the lock, then Unlock.
AcquireSend(p) ==
  /\ ~panicked /\ pc[p] = "send"
  /\ IF poolClosed
       THEN /\ Panic(p)
            /\ UNCHANGED <<pool, mutex, closer>>
       ELSE /\ Len(pool) < max
            /\ pool' = Append(pool, closer[p])
            /\ closer' = [closer EXCEPT ![p] = NIL]
            /\ mutex' = FALSE
            /\ pc' = [pc EXCEPT ![p] = "popback"]
            /\ UNCHANGED panicked
  /\ UNCHANGED <<poolClosed, active, closed, notice, cfgVars, built, expired,
                 closeCalls, closeErrs, held, released, ret, trace>>

\* acquire, the final return <-conn.pool.
AcquirePopBack(p) ==
  /\ ~panicked /\ pc[p] = "popback"
  /\ RecvReady
  /\ RecvPool(p)
  /\ pc' = [pc EXCEPT ![p] = "check"]
  /\ UNCHANGED <<poolClosed, countVars, envVars, ret, trace>>

\* case <-closer.Done() is ready.
IsDone(r) == r \in expired

\* Acquire, the select on closer.Done(): a nil closer panics, an expired
\* one goes to conn.Close, a live one is returned to the consumer.
AcquireCheck(p) ==
  /\ ~panicked /\ pc[p] = "check"
  /\ IF closer[p] = NIL
       THEN /\ Panic(p)
            /\ UNCHANGED <<closer, ret, held, trace>>
       ELSE /\ UNCHANGED panicked
            /\ IF IsDone(closer[p])
                 THEN /\ pc' = [pc EXCEPT ![p] = "stale"]
                      /\ UNCHANGED <<closer, ret, held, trace>>
                 ELSE /\ Return(p, "Acquire", "ok", closer[p])
                      /\ held' = [held EXCEPT ![closer[p]] = @ + 1]
  /\ UNCHANGED <<poolVars, countVars, cfgVars, built, expired, closeCalls,
                 closeErrs, released>>

\* --------------------------------------------------------------- Close
\* Mutant of CloseBody: the notice is sent without the len(conn.notice) test.
CloseBody_AlwaysNotify(p, ok) ==
  /\ ~mutex
  /\ closeCalls' = [closeCalls EXCEPT ![closer[p]] = @ + 1]
  /\ IF ok
       THEN /\ active' = active - 1
            /\ notice' = notice + 1
            /\ mutex' = FALSE
            /\ UNCHANGED closeErrs
       ELSE /\ mutex' = TRUE
            /\ closeErrs' = closeErrs \cup {closer[p]}
            /\ UNCHANGED <<active, notice>>

\* The body of Close from Lock to its return.  A failing io.Closer makes
\* Close return before the decrement and before Unlock.
CloseBody(p, ok) ==
  /\ ~mutex
  /\ closeCalls' = [closeCalls EXCEPT ![closer[p]] = @ + 1]
  /\ IF ok
       THEN /\ active' = active - 1
            /\ notice' = IF notice = 0 THEN 1 ELSE notice
            /\ mutex' = FALSE
            /\ UNCHANGED closeErrs
       ELSE /\ mutex' = TRUE
            /\ closeErrs' = closeErrs \cup {closer[p]}
            /\ UNCHANGED <<active, notice>>

\* Mutant of AcquireStale: the closed resource is put back into conn.pool.
AcquireStale_Requeue(p) ==
  /\ ~panicked /\ pc[p] = "stale"
  /\ \E ok \in BOOLEAN : CloseBody(p, ok)
  /\ Len(pool) < max /\ ~poolClosed
  /\ pool' = Append(pool, closer[p])
  /\ closer' = [closer EXCEPT ![p] = NIL]
  /\ pc' = [pc EXCEPT ![p] = "acquire"]
  /\ UNCHANGED <<poolClosed, closed, cfgVars, built, expired, held, released,
                 panicked, ret, trace>>

\* Acquire, the stale branch: conn.Close(closer); continue.
AcquireStale(p) ==
  /\ ~panicked /\ pc[p] = "stale"
  /\ \E ok \in BOOLEAN : CloseBody(p, ok)
  /\ closer' = [closer EXCEPT ![p] = NIL]
  /\ pc' = [pc EXCEPT ![p] = "acquire"]
  /\ UNCHANGED <<poolVars, closed, cfgVars, built, expired, held, released,
                 panicked, ret, trace>>

\* A consumer discards a resource it holds: Close(closer) is called.
CloseCall(p) ==
  /\ ~panicked /\ pc[p] = "idle"
  /\ \E r \in Resources :
       /\ held[r] > 0
       /\ held' = [held EXCEPT ![r] = @ - 1]
       /\ closer' = [closer EXCEPT ![p] = r]
  /\ pc' = [pc EXCEPT ![p] = "close"]
  /\ ret' = [ret EXCEPT ![p] = "none"]
  /\ UNCHANGED <<trace, poolVars, countVars, cfgVars, built, expired,
                 closeCalls, closeErrs, released, panicked>>

\* Close called by a consumer, from Lock to its return.
CloseRun(p) ==
  /\ ~panicked /\ pc[p] = "close"
  /\ \E ok \in BOOLEAN :
       /\ CloseBody(p, ok)
       /\ Return(p, "Close", IF ok THEN "ok" ELSE "CloseErr", closer[p])
  /\ UNCHANGED <<poolVars, closed, cfgVars, built, expired, held, released,
                 panicked>>

\* -------------------------------------------------------------- Regain
\* Regain, entry: the unsynchronised read of conn.closed.  On PoolClosed
\* the consumer keeps the resource.
RegainCall(p) ==
  /\ ~panicked /\ pc[p] = "idle"
  /\ \E r \in Resources :
       /\ held[r] > 0
       /\ IF closed
            THEN /\ Return(p, "Regain", "PoolClosed", r)
                 /\ UNCHANGED held
            ELSE /\ held' = [held EXCEPT ![r] = @ - 1]
                 /\ closer' = [closer EXCEPT ![p] = r]
                 /\ pc' = [pc EXCEPT ![p] = "regain"]
                 /\ ret' = [ret EXCEPT ![p] = "none"]
                 /\ UNCHANGED trace
  /\ UNCHANGED <<poolVars, countVars, cfgVars, built, expired, closeCalls,
                 closeErrs, released, panicked>>

\* Mutant of RegainSend: Regain returns nil without queueing the resource.
RegainSend_Drop(p) ==
  /\ ~panicked /\ pc[p] = "regain"
  /\ IF poolClosed
       THEN /\ Panic(p)
            /\ UNCHANGED <<pool, closer, ret, trace>>
       ELSE /\ Len(pool) < max
            /\ pool' = pool
            /\ Return(p, "Regain", "ok", closer[p])
            /\ UNCHANGED panicked
  /\ UNCHANGED <<poolClosed, countVars, cfgVars, built, expired, closeCalls,
                 closeErrs, held, released>>

\* Regain, conn.pool <- closer.
RegainSend(p) ==
  /\ ~panicked /\ pc[p] = "regain"
  /\ IF poolClosed
       THEN /\ Panic(p)
            /\ UNCHANGED <<pool, closer, ret, trace>>
       ELSE /\ Len(pool) < max
            /\ pool' = Append(pool, closer[p])
            /\ Return(p, "Regain", "ok", closer[p])
            /\ UNCHANGED panicked
  /\ UNCHANGED <<poolClosed, countVars, cfgVars, built, expired, closeCalls,
                 closeErrs, held, released>>

\* ------------------------------------------------------------- Release
\* Release, entry: the unsynchronised read of conn.closed.
ReleaseCall(p) ==
  /\ ~panicked /\ pc[p] = "idle"
  /\ IF closed
       THEN Return(p, "Release", "PoolClosed", NIL)
       ELSE /\ pc' = [pc EXCEPT ![p] = "release"]
            /\ ret' = [ret EXCEPT ![p] = "none"]
            /\ UNCHANGED <<closer, trace>>
  /\ UNCHANGED <<poolVars, countVars, envVars>>

\* Release, Lock and close(conn.pool).
ReleaseLock(p) ==
  /\ ~panicked /\ pc[p] = "release"
  /\ ~mutex
  /\ mutex' = TRUE
  /\ IF poolClosed
       THEN /\ Panic(p)
            /\ UNCHANGED poolClosed
       ELSE /\ poolClosed' = TRUE
            /\ pc' = [pc EXCEPT ![p] = "drain"]
            /\ UNCHANGED panicked
  /\ UNCHANGED <<pool, active, closed, notice, cfgVars, built, expired,
                 closeCalls, closeErrs, held, released, closer, ret, trace>>

\* Mutant of ReleaseDrain: the drained resource is closed but not
\* subtracted from active.
ReleaseDrain_NoDecrement(p) ==
  /\ ~panicked /\ pc[p] = "drain"
  /\ Len(pool) > 0
  /\ pool' = Tail(pool)
  /\ active' = active
  /\ closeCalls' = [closeCalls EXCEPT ![Head(pool)] = @ + 1]
  /\ \E ok \in BOOLEAN :
       closeErrs' = IF ok THEN closeErrs ELSE closeErrs \cup {Head(pool)}
  /\ UNCHANGED <<poolClosed, closed, mutex, notice, cfgVars, built, expired,
                 held, released, panicked, pc, closer, ret, trace>>

\* Release, one iteration of range conn.pool; the result of Conn.Close() is
\* dropped.
ReleaseDrain(p) ==
  /\ ~panicked /\ pc[p] = "drain"
  /\ Len(pool) > 0
  /\ pool' = Tail(pool)
  /\ active' = active - 1
  /\ closeCalls' = [closeCalls EXCEPT ![Head(pool)] = @ + 1]
  /\ \E ok \in BOOLEAN :
       closeErrs' = IF ok THEN closeErrs ELSE closeErrs \cup {Head(pool)}
  /\ UNCHANGED <<poolClosed, closed, mutex, notice, cfgVars, built, expired,
                 held, released, panicked, pc, closer, ret, trace>>

\* Mutant of ReleaseDone: Release returns without setting conn.closed.
ReleaseDone_NoFlag(p) ==
  /\ ~panicked /\ pc[p] = "drain"
  /\ Len(pool) = 0
  /\ closed' = closed
  /\ mutex' = FALSE
  /\ released' = TRUE
  /\ Return(p, "Release", "ok", NIL)
  /\ UNCHANGED <<poolVars, active, notice, cfgVars, built, expired,
                 closeCalls, closeErrs, held, panicked>>

\* Release, after the loop: closed = true, Unlock, return nil.
ReleaseDone(p) ==
  /\ ~panicked /\ pc[p] = "drain"
  /\ Len(pool) = 0
  /\ closed' = TRUE
  /\ mutex' = FALSE
  /\ released' = TRUE
  /\ Return(p, "Release", "ok", NIL)
  /\ UNCHANGED <<poolVars, active, notice, cfgVars, built, expired,
                 closeCalls, closeErrs, held, panicked>>

\* --------------------------------------------------------- environment
\* The context of a resource is cancelled: Done() becomes readable.  Only
\* the select in Acquire reads Done(), and every resource reaches it through
\* conn.pool, so cancelling idle resources covers every outcome of that read.
Expire(r) ==
  /\ ~panicked
  /\ InPool(r) /\ r \notin expired
  /\ expired' = expired \cup {r}
  /\ UNCHANGED <<poolVars, countVars, cfgVars, built, closeCalls, closeErrs,
                 held, released, panicked, pc, closer, ret, trace>>

Next ==
  \/ \E p \in Procs : AcquireCall(p)
  \/ \E p \in Procs : AcquireSelect(p)
  \/ \E p \in Procs : AcquireLock(p)
  \/ \E p \in Procs : AcquireWaitPool(p)
  \/ \E p \in Procs : AcquireWaitNotice(p)
  \/ \E p \in Procs : AcquireBuild(p)
  \/ \E p \in Procs : AcquireSend(p)
  \/ \E p \in Procs : AcquirePopBack(p)
  \/ \E p \in Procs : AcquireCheck(p)
  \/ \E p \in Procs : AcquireStale(p)
  \/ \E p \in Procs : CloseCall(p)
  \/ \E p \in Procs : CloseRun(p)
  \/ \E p \in Procs : RegainCall(p)
  \/ \E p \in Procs : RegainSend(p)
  \/ \E p \in Procs : ReleaseCall(p)
  \/ \E p \in Procs : ReleaseLock(p)
  \/ \E p \in Procs : ReleaseDrain(p)
  \/ \E p \in Procs : ReleaseDone(p)
  \/ \E r \in Resources : Expire(r)

Spec == Init /\ [][Next]_vars

\* The steps of a goroutine inside a call: the scheduler runs every goroutine
\* that can take a step, it does not make consumers start new calls.
Step(p) ==
  \/ AcquireSelect(p) \/ AcquireLock(p) \/ AcquireWaitPool(p)
  \/ AcquireWaitNotice(p) \/ AcquireBuild(p) \/ AcquireSend(p)
  \/ AcquirePopBack(p) \/ AcquireCheck(p) \/ AcquireStale(p)
  \/ CloseRun(p) \/ RegainSend(p)
  \/ ReleaseLock(p) \/ ReleaseDrain(p) \/ ReleaseDone(p)

FairSpec == Spec /\ \A p \in Procs : WF_vars(Step(p))

\* One goroutine alone uses the pool, and its calls' returns are recorded.
\* (The receive branch of the blocking select needs a second goroutine.)
Solo == CHOOSE p \in Procs : TRUE

SoloNext ==
  \/ AcquireCall(Solo)
  \/ AcquireSelect(Solo)
  \/ AcquireLock(Solo)
  \/ AcquireWaitNotice(Solo)
  \/ AcquireBuild(Solo)
  \/ AcquireSend(Solo)
  \/ AcquirePopBack(Solo)
  \/ AcquireCheck(Solo)
  \/ AcquireStale(Solo)
  \/ CloseCall(Solo)
  \/ CloseRun(Solo)
  \/ RegainCall(Solo)
  \/ RegainSend(Solo)
  \/ ReleaseCall(Solo)
  \/ ReleaseLock(Solo)
  \/ ReleaseDrain(Solo)
  \/ ReleaseDone(Solo)
  \/ \E r \in Resources : Expire(r)

SoloInit == NewManager(TRUE)

SoloSpec == SoloInit /\ [][SoloNext]_vars

\* ------------------------------------------------------------ properties
RECURSIVE SumHeld(_)
SumHeld(n) == IF n = 0 THEN 0 ELSE held[n] + SumHeld(n - 1)

\* Number of resources consumers hold: returned by Acquire and not yet
\* handed to Regain or Close.
HeldCount == SumHeld(MaxCap + MaxBuilds)

InAcquire(p) ==
  pc[p] \in {"acquire", "lock", "wait", "build", "send", "popback", "check", "stale"}

\* Number of places that own r: slots of conn.pool, consumers, running calls.
Owners(r) ==
  Cardinality({i \in 1..Len(pool) : pool[i] = r}) + held[r]
    + Cardinality({p \in Procs : closer[p] = r})

\* C1: in every reachable state the counter satisfies 0 <= active <= max.
C1_ActiveInRange == 0 <= active /\ active <= max

\* C1 witness: after a Close freed a slot, Acquire has constructed a resource
\* and the counter is back at max on an open pool.
C1_Witness == active = max /\ built > max /\ ~closed /\ ~panicked

\* C2: at most max resources are held by callers at once, and while max are
\* held no other caller inside Acquire has a resource in hand, so none of
\* them returns before a holder calls Regain or Close.
C2_AtMostMaxHolders ==
  /\ HeldCount <= max
  /\ HeldCount = max => \A p \in Procs : InAcquire(p) => closer[p] = NIL

\* C2 witness: more callers than capacity; max of them hold a resource and
\* another one is blocked in the select of acquire.
C2_Witness ==
  /\ NumProcs > max
  /\ HeldCount = max
  /\ \E p \in Procs : pc[p] = "wait"
  /\ ~closed /\ ~panicked

\* C3: no resource has two owners, and every constructed resource whose
\* close operation has not run is owned by exactly one of: a slot of the
\* available-set, a consumer, a running call.
C3_ExclusiveOwner ==
  \A r \in Resources :
    /\ Owners(r) <= 1
    /\ (r <= built /\ closeCalls[r] = 0) => Owners(r) = 1

\* C3 witness: a freshly constructed resource was pushed into the
\* available-set and another caller took it before its builder popped it back.
C3_Witness ==
  \E p \in Procs :
    /\ pc[p] = "popback"
    /\ built > max
    /\ ~InPool(built)
    /\ closeCalls[built] = 0
    /\ ~panicked

\* C4: under fair scheduling no Acquire stays blocked in the select of
\* acquire forever while the pool is open and an idle resource or a free
\* slot (active < max, lock free) is available to it.
C4_NoStarvation ==
  \A p \in Procs :
    []<>~( /\ pc[p] = "wait"
           /\ ~closed /\ ~poolClosed /\ ~panicked /\ ~mutex
           /\ (Len(pool) > 0 \/ active < max) )

\* Number of resources out of the available-set and not closed: held by
\* consumers or in the hand of a running call.
CheckedOut == HeldCount + Cardinality({p \in Procs : closer[p] # NIL})

\* C5: once a Release call has returned nil, every Acquire, Regain and
\* Release call that starts returns PoolClosed, and closed never goes back
\* from true to false.
C5_ClosedIsFinal ==
  [][ /\ closed => closed'
      /\ \A p \in Procs :
           (released /\ (AcquireCall(p) \/ RegainCall(p) \/ ReleaseCall(p)))
             => (pc'[p] = "idle" /\ ret'[p] = "PoolClosed") ]_vars

\* C5 witness: Release has returned nil while a consumer still holds a
\* resource, and a later call has returned PoolClosed.
C5_Witness ==
  /\ released /\ closed
  /\ HeldCount > 0
  /\ \E p \in Procs : pc[p] = "idle" /\ ret[p] = "PoolClosed"

\* C6: an Acquire call never has an empty (nil) item in hand: a receive
\* from the terminated available-set is never taken for a resource.
C6_NoNilResource ==
  \A p \in Procs : pc[p] = "check" => closer[p] # NIL

\* The last three returns of the history are Acquire -> r, Regain(r),
\* Acquire -> some resource, all successful.
RoundTrip(a, b, c) ==
  /\ a.op = "Acquire" /\ a.val = "ok"
  /\ b.op = "Regain" /\ b.val = "ok" /\ b.res = a.res
  /\ c.op = "Acquire" /\ c.val = "ok"

First == trace[Len(trace) - 2]
Second == trace[Len(trace) - 1]
Third == trace[Len(trace)]

\* C7 (as claimed): alone on the pool, Acquire -> r, Regain(r), Acquire
\* returns r again, whatever the capacity.
C7_RoundTripAnyCapacity ==
  (Len(trace) >= 3 /\ RoundTrip(First, Second, Third))
    => Third.res = First.res

\* C7 (amended): alone on the pool, Acquire -> r, Regain(r), Acquire returns
\* r again if the available-set was empty when Regain queued r and r has not
\* expired.
C7_RoundTripWhenIdleEmpty ==
  (/\ Len(trace) >= 3 /\ RoundTrip(First, Second, Third)
   /\ Second.idle = 0
   /\ First.res \notin expired)
    => Third.res = First.res

\* C7 witness: such a round trip on a pool of capacity 2 whose other
\* resource is checked out.
C7_Witness ==
  /\ max = 2
  /\ Len(trace) >= 3 /\ RoundTrip(First, Second, Third)
  /\ Second.idle = 0
  /\ Third.res = First.res

\* C8: Acquire returns no resource it saw expired, and every expired
\* resource it obtained is closed through Close with active decremented by
\* one before the acquisition is retried.
C8_StaleDiscarded ==
  [][ \A p \in Procs :
        /\ (AcquireCheck(p) /\ held' # held) => ~IsDone(closer[p])
        /\ AcquireStale(p) =>
             /\ closeCalls'[closer[p]] = closeCalls[closer[p]] + 1
             /\ active' = active - 1
             /\ pc'[p] = "acquire" ]_vars

\* C9: the close operation of a resource is invoked at most once.
C9_ClosedAtMostOnce == \A r \in Resources : closeCalls[r] <= 1

\* C9 witness: Release has drained and closed an idle resource after
\* another resource was closed through Close.
C9_Witness ==
  /\ released
  /\ notice > 0
  /\ Cardinality({r \in Resources : closeCalls[r] = 1}) >= 2

\* C10: Release closes only resources it takes out of the available-set,
\* decrementing active once for each, and leaves every other resource
\* alone; when it returns, the available-set is empty, closed is true and
\* active equals the number of checked-out resources.
C10_ReleaseClosesIdleOnly ==
  [][ \A p \in Procs :
        /\ ReleaseDrain(p) =>
             /\ InPool(Head(pool))
             /\ active' = active - 1
             /\ \A r \in Resources :
                  closeCalls'[r] = closeCalls[r] + (IF r = Head(pool) THEN 1 ELSE 0)
             /\ held' = held /\ closer' = closer
        /\ (ReleaseLock(p) \/ ReleaseDone(p)) =>
             /\ closeCalls' = closeCalls /\ active' = active /\ held' = held
        /\ ReleaseDone(p) =>
             /\ closed' /\ pool' = <<>>
             /\ active' = CheckedOut' ]_vars

\* C10 witness: Release has returned after closing one idle resource while
\* the other resource of the pool is checked out and counted in active.
C10_Witness ==
  /\ released /\ closed
  /\ max = 2 /\ built = 2
  /\ HeldCount = 1 /\ active = 1
  /\ Cardinality({r \in Resources : closeCalls[r] = 1}) = 1
  /\ \E p \in Procs : pc[p] = "idle" /\ ret[p] = "ok"

\* C11: a Regain call that runs concurrently with Release ends in one of two
\* ways: it queues its resource while the available-set is not yet terminal
\* and returns nil, or it returns PoolClosed.  It never dies, and it never
\* queues into the terminated available-set.
C11_RegainOkOrPoolClosed ==
  [][ \A p \in Procs :
        (RegainCall(p) \/ RegainSend(p)) =>
          /\ ~panicked'
          /\ pool' # pool => ~poolClosed
          /\ pc'[p] = "idle" => ret'[p] \in {"ok", "PoolClosed"} ]_vars

\* C12: Release is one-shot under concurrency: the available-set is
\* terminated exactly once, exactly one of the concurrent Release calls
\* returns nil and every other one returns PoolClosed.
C12_ReleaseOneShot ==
  [][ \A p \in Procs :
        /\ ReleaseLock(p) => (~poolClosed /\ ~panicked')
        /\ ReleaseDone(p) => ~released
        /\ (ReleaseCall(p) /\ closed) =>
             (pc'[p] = "idle" /\ ret'[p] = "PoolClosed") ]_vars

\* C13: when Close returns, with nil or with the error of the underlying
\* close, the state lock is not held.
C13_CloseLeavesLockFree ==
  [][ \A p \in Procs : (CloseRun(p) \/ AcquireStale(p)) => ~mutex' ]_vars

\* C14: when the underlying close fails inside Close, Close returns that
\* error and active is still decremented by one.
C14_FailedCloseStillCounts ==
  [][ \A p \in Procs :
        (CloseRun(p) /\ ret'[p] = "CloseErr") => active' = active - 1 ]_vars

\* C15: no error is swallowed.  When the underlying close of an expired
\* resource fails inside Acquire, Acquire returns that error; when the
\* underlying close of a drained resource fails inside Release, Release
\* returns an error.  (A failed Close leaves the mutex locked, so every error
\* recorded when Release finishes is one of its own drain.)
C15_NoErrorSwallowed ==
  [][ \A p \in Procs :
        /\ (AcquireStale(p) /\ closeErrs' # closeErrs) =>
             (pc'[p] = "idle" /\ ret'[p] = "CloseErr")
        /\ (ReleaseDone(p) /\ closeErrs # {}) => ret'[p] = "CloseErr" ]_vars

\* C16: every Acquire caller that is blocked in the select of acquire while
\* a notice of Close is pending is woken: it leaves the select (and re-runs
\* the acquisition), however many other callers are blocked with it.  Runs
\* that end in a panic, a failed underlying close or a Release are left out.
C16_EveryWaiterWoken ==
  \A p \in Procs :
    (pc[p] = "wait" /\ notice > 0 /\ ~panicked)
      ~> (pc[p] # "wait" \/ panicked \/ closeErrs # {} \/ poolClosed)

\* An Acquire call is suspended outside the lock: in the blocking select with
\* nothing to receive, or in the final receive with nothing to receive.
Suspended(p) ==
  \/ pc[p] = "wait" /\ ~RecvReady /\ notice = 0
  \/ pc[p] = "popback" /\ ~RecvReady

\* C17: an Acquire call is suspended only while active == max (the
\* available-set is then empty), and the receive that follows a successful
\* construction is never suspended: an item is there for it.
C17_SuspendsOnlyAtCapacity ==
  \A p \in Procs :
    /\ (Suspended(p) /\ ~panicked) => (Len(pool) = 0 /\ active = max)
    /\ (pc[p] = "popback" /\ ~panicked) => RecvReady

\* C18: whenever the state lock is free, active equals the number of
\* resources in the available-set plus the number of resources checked out
\* (held by a consumer or in the hand of a running call); hence the
\* available-set never holds more than max resources, and the send of a
\* Regain of a held resource always finds room in the queue.
C18_ActiveAccountsForAll ==
  /\ ~mutex => active = Len(pool) + CheckedOut
  /\ Len(pool) <= max
  /\ \A p \in Procs : pc[p] = "regain" => Len(pool) < max

\* C18 witness: with the lock free, a Regain is about to queue its resource
\* while a constructed replacement sits in the available-set and both are
\* counted in active.
C18_Witness ==
  /\ ~mutex /\ ~poolClosed /\ ~panicked
  /\ max = 2 /\ built > max
  /\ Len(pool) = 1 /\ HeldCount = 0
  /\ \E p \in Procs : pc[p] = "regain"
  /\ active = 2

\* C19: conn.notice never holds more than one pending notice (so never more
\* than its capacity max: the send in Close cannot block), and a successful
\* Close leaves exactly one notice pending: it sends one when none is
\* pending and none otherwise.
C19_AtMostOneNotice ==
  /\ [](notice <= 1 /\ notice <= max)
  /\ [][ \A p \in Procs :
           ((CloseRun(p) \/ AcquireStale(p)) /\ closeErrs' = closeErrs) =>
             notice' = (IF notice = 0 THEN 1 ELSE notice) ]_vars

\* C19 witness: both resources of a pool of capacity 2 were closed through
\* Close with no Acquire in between: the second Close found the notice of
\* the first one pending, and one notice is pending.
C19_Witness ==
  /\ max = 2 /\ built = max /\ active = 0
  /\ notice = 1
  /\ closeErrs = {} /\ ~mutex /\ ~poolClosed
  /\ \A p \in Procs : pc[p] = "idle" /\ ret[p] \in {"none", "ok"}

\* C20: when builder() fails inside Acquire (reached with the lock held and
\* active < max), Acquire returns the builder's error with the lock
\* released, and active, the available-set, the notices and the closed flag
\* are as they were.
C20_BuildErrorLeavesState ==
  [][ \A p \in Procs :
        (AcquireBuild(p) /\ built' = built) =>
          /\ mutex /\ active < max
          /\ pc'[p] = "idle" /\ ret'[p] = "BuildErr"
          /\ ~mutex'
          /\ active' = active /\ pool' = pool /\ poolClosed' = poolClosed
          /\ notice' = notice /\ closed' = closed ]_vars

\* C20 witness: an Acquire has returned the builder's error and a later
\* Acquire, holding the lock, has constructed a resource and counted it.
C20_Witness ==
  /\ \E p \in Procs : pc[p] = "idle" /\ ret[p] = "BuildErr"
  /\ \E q \in Procs : pc[q] = "send"
  /\ built > max /\ active = max
  /\ ~panicked

====
